---- MODULE Spec2Model ----
(***************************************************************************)
(* A model of nats-forge: the orchestrator NatsSetup::initialize           *)
(* (src/src/lib.rs), the issuer adapter functions (src/src/nsc.rs) and the *)
(* configuration renderer (src/src/server.rs), run against an abstract     *)
(* identity issuer (nsc) that mutates an on-disk trust store.              *)
(*                                                                         *)
(* The multi-server steps (replicating account JWTs and leafnode           *)
(* credential bundles into every server's output directory) have no code   *)
(* under src/: they are modelled from spec.md section 4.3 and are marked   *)
(* as such where they are defined.                                         *)
(***************************************************************************)
EXTENDS Integers, Sequences, FiniteSets, TLC

\* ------------------------------------------------------------------ bounds
MaxServers == 2
MaxAccounts == 2
MaxUsers == 1
MaxImports == 1
MaxRemotes == 1

\* Option<T>: None is the empty sequence, Some(v) the one-element sequence.
None == <<>>
Some(v) == <<v>>

\* Sequences over S of length at most n.
BSeq(S, n) == UNION {[1..k -> S] : k \in 0..n}

\* ------------------------------------------------------- descriptor (input)
AccountNames == {"SYS", "A", "B"}
UserNames == {"u"}
ExportSubject == "app.data"
ImportSubject == "app.data"

\* config.rs UserConfig
UserConfigs == [name : UserNames]

\* config.rs ExportConfig
ExportConfigs == [subject : {ExportSubject}, is_service : {FALSE}]

\* config.rs ImportConfig: `account` is the exporting account's name.
ImportConfigs == [subject : {ImportSubject}, account : {"A", "B"}]

\* The unique_name values a descriptor may give an account called `name`:
\* absent (""), or explicitly the account's own name.
UniqueNameChoices(name) == {"", name}

\* config.rs AccountConfig
AccountOf(n, un, sys, conns, ex, im, us) ==
    [name |-> n, unique_name |-> un, is_system_account |-> sys,
     max_connections |-> conns, max_payload |-> None,
     exports |-> ex, imports |-> im, users |-> us]

\* Accounts with users and no account-editing feature.
BaseAccounts ==
    {AccountOf(n, un, sys, None, <<>>, <<>>, us) :
        n \in AccountNames, un \in {"", "A", "B", "SYS"},
        sys \in BOOLEAN, us \in BSeq(UserConfigs, MaxUsers)}

\* Accounts that import from another account.
ImportingAccounts ==
    {AccountOf(n, un, FALSE, None, <<>>, im, us) :
        n \in {"A", "B"}, un \in {"", "A", "B", "SYS"},
        im \in BSeq(ImportConfigs, MaxImports) \ {<<>>},
        us \in BSeq(UserConfigs, MaxUsers)}

\* Accounts with an export, with and without a connection limit.
ExportingAccounts ==
    {AccountOf(n, un, FALSE, conns, <<e>>, <<>>, <<>>) :
        n \in {"A", "B"}, un \in {"", "A", "B", "SYS"},
        conns \in {None, Some(5)}, e \in ExportConfigs}

AccountConfigs ==
    {a \in BaseAccounts \cup ImportingAccounts \cup ExportingAccounts :
        a.unique_name \in UniqueNameChoices(a.name)}

\* The accounts of the multi-server deployments: the system account is the
\* one called SYS.
ServerAccountConfigs ==
    {a \in BaseAccounts :
        /\ a.unique_name \in UniqueNameChoices(a.name)
        /\ a.is_system_account = (a.name = "SYS")}

\* lib.rs create_user / nsc.rs create_user: the credential file's name.
CredsFileName(account_name, user_name) ==
    account_name \o "-" \o user_name \o ".creds"

\* config.rs RemoteConfig
RemoteConfigs ==
    [url : {"nats://localhost:4248"},
     account : {"A", "B"},
     credentials : {CredsFileName(a, u) : a \in {"A", "B"}, u \in UserNames}]

\* config.rs OperatorConfig
OperatorConfigs == [name : {"op"}, reuse_existing : BOOLEAN]

Min(S) == CHOOSE x \in S : \A y \in S : x <= y
Max(S) == CHOOSE x \in S : \A y \in S : x >= y

\* The accounts of `accts` that `owner` gives to server i, in listed order.
OwnedBy(accts, owner, i) ==
    LET idx == {k \in 1..Len(accts) : owner[k] = i}
    IN IF idx = {} THEN <<>> ELSE SubSeq(accts, Min(idx), Max(idx))

\* Assignments of a flat account list to n servers that keep the listed order.
Owners(len, n) ==
    {o \in [1..len -> 1..n] : \A j, k \in 1..len : j <= k => o[j] <= o[k]}

RECURSIVE SumLen(_)
SumLen(seqs) ==
    IF seqs = <<>> THEN 0 ELSE Len(Head(seqs)) + SumLen(Tail(seqs))

RemoteAssignments(n) ==
    {r \in [1..n -> BSeq(RemoteConfigs, MaxRemotes)] : SumLen(r) <= MaxRemotes}

\* std::collections::HashMap<String, String>: its entries, and the order in
\* which this instance iterates over them.  Two maps are equal when their
\* entries are; the iteration order of an instance depends on its hasher's
\* random seed.
HashMapOf(entries, iter) == [entries |-> entries, iter |-> iter]
EmptyMap == HashMapOf({}, <<>>)

\* The orders in which a HashMap holding `entries` may iterate.
IterationOrders(entries) ==
    {it \in [1..Cardinality(entries) -> entries] :
        \A x \in entries : \E j \in DOMAIN it : it[j] = x}

\* config.rs ServerConfig
ServerOf(i, accts, owner, rem) ==
    [name |-> "s" \o ToString(i),
     port |-> 4221 + i,
     output_dir |-> "out" \o ToString(i),
     jetstream |-> [enabled |-> FALSE],
     leafnodes |-> [port |-> None, remotes |-> rem[i]],
     accounts |-> OwnedBy(accts, owner, i),
     tls |-> None,
     mappings |-> EmptyMap]

DescriptorOf(op, n, accts, owner, rem) ==
    [operator |-> op,
     servers |-> [i \in 1..n |-> ServerOf(i, accts, owner, rem)]]

\* config.rs NatsConfig.  The descriptors the model runs: single-server
\* deployments of accounts with every feature, and deployments of up to
\* MaxServers servers with leafnode remotes.
SingleServerDescriptors ==
    {DescriptorOf(op, 1, accts, [k \in 1..Len(accts) |-> 1], <<<<>>>>) :
        op \in OperatorConfigs, accts \in BSeq(AccountConfigs, MaxAccounts)}

MultiServerDescriptors ==
    UNION {UNION {{DescriptorOf([name |-> "op", reuse_existing |-> FALSE],
                                n, accts, owner, rem) :
                      owner \in Owners(Len(accts), n),
                      rem \in RemoteAssignments(n)} :
                  accts \in BSeq(ServerAccountConfigs, MaxAccounts)} :
           n \in 1..MaxServers}

Descriptors == SingleServerDescriptors \cup MultiServerDescriptors

\* --------------------------------------------------------- normalisation
\* Uuid::new_v4(): a fresh random discriminator for each call; what the
\* random source gives varies from run to run (`seed`).
Seeds == {"a", "b"}
Uuid(seed, i, k) == "uuid" \o seed \o ToString(i) \o ToString(k)

\* lib.rs NatsSetup::new: the account loop.
NormalizeAccount(a, seed, i, k) ==
    IF a.unique_name = ""
    THEN [a EXCEPT !.unique_name = a.name \o "-" \o Uuid(seed, i, k)]
    ELSE a

\* lib.rs NatsSetup::new
Normalize(d, seed) ==
    [operator |-> [d.operator EXCEPT !.name = @ \o "-" \o Uuid(seed, 0, 0)],
     servers |->
        [i \in DOMAIN d.servers |->
            [d.servers[i] EXCEPT !.accounts =
                [k \in DOMAIN d.servers[i].accounts |->
                    NormalizeAccount(d.servers[i].accounts[k], seed, i, k)]]]]

\* The accounts of the deployment in listed order, each with the index of
\* the server that declares it (lib.rs: self.config.accounts).
RECURSIVE FlattenFrom(_, _)
FlattenFrom(servers, i) ==
    IF i > Len(servers) THEN <<>>
    ELSE [k \in 1..Len(servers[i].accounts) |->
             [server |-> i, account |-> servers[i].accounts[k]]]
         \o FlattenFrom(servers, i + 1)

MutAllAccounts(cfg) ==
    LET listed == FlattenFrom(cfg.servers, 1)
    IN [j \in 1..Len(listed) |-> listed[Len(listed) + 1 - j]]
AllAccounts(cfg) == FlattenFrom(cfg.servers, 1)

\* ------------------------------------------------------------- tokens
\* A token as the run sees it: the number of '.'-separated segments, and the
\* second segment (its encoding and, when decodable, its claim set).
TokenForms == {"jwt", "garbage"}

\* The subject id (public key) the issuer gives an entity of its store.
SubjectId(kind, ident) == kind \o ":" \o ident

\* A JSON value of a claim, with its type.
JsonString(v) == [type |-> "string", v |-> v]
\* A JSON array in the place of the claim set: it has no fields, and indexing
\* it by "sub" gives null.
JsonArray(n) == [elements |-> n]
JsonNumber(v) == [type |-> "number", v |-> ToString(v)]

Token(form, kind, ident, rev) ==
    IF form = "jwt"
    THEN [segments |-> 3,
          payload |-> [enc |-> "b64json",
                       claims |-> [sub |-> JsonString(SubjectId(kind, ident)),
                                   name |-> ident, rev |-> rev]]]
    ELSE [segments |-> 1,
          payload |-> [enc |-> "none", claims |-> [rev |-> rev]]]

Ok(v) == [ok |-> TRUE, value |-> v]
Err(e) == [ok |-> FALSE, value |-> e]

\* lib.rs NatsSetup::extract_account_id / nsc.rs extract_account_id:
\* split('.') must give three parts; the second is base64-decoded, read as
\* UTF-8 and parsed as JSON; json["sub"].as_str() gives the subject (None
\* when there is no "sub" or it is not a string).
MutExtractAccountId(jwt) ==
    IF jwt.payload.enc # "b64json" THEN Err("ClaimDecodeError")
    ELSE IF jwt.segments # 3 THEN Err("MalformedToken")
    ELSE IF "sub" \notin DOMAIN jwt.payload.claims
         THEN Err("MissingSubjectClaim")
    ELSE IF jwt.payload.claims.sub.type # "string"
         THEN Err("MissingSubjectClaim")
    ELSE Ok(jwt.payload.claims.sub.v)
extract_account_id(jwt) ==
    IF jwt.segments # 3 THEN Err("MalformedToken")
    ELSE IF jwt.payload.enc # "b64json" THEN Err("ClaimDecodeError")
    ELSE IF "sub" \notin DOMAIN jwt.payload.claims
         THEN Err("MissingSubjectClaim")
    ELSE IF jwt.payload.claims.sub.type # "string"
         THEN Err("MissingSubjectClaim")
    ELSE Ok(jwt.payload.claims.sub.v)

\* ------------------------------------------------- the issuer's trust store
\* store.operator: the operator the store was initialised for ("" before);
\* store.accounts: identifier -> [rev, form], the account's current token;
\* store.users: the (account identifier, user name) pairs added.
EmptyStore == [operator |-> "", accounts |-> <<>>, users |-> {}]

HasAccount(st, ident) == ident \in DOMAIN st.accounts

\* <store>/<operator>/accounts/<account>/<account>.jwt
MutStoredAccountJwt(st, ident) == Token(st.accounts[ident].form, "A", ident, 0)
StoredAccountJwt(st, ident) ==
    Token(st.accounts[ident].form, "A", ident, st.accounts[ident].rev)

\* <store>/<operator>/<operator>.jwt
StoredOperatorJwt(st) == Token("jwt", "O", st.operator, 0)

\* nsc init: the operator and its default SYS account.
NscInit(st, name, form) ==
    [st EXCEPT !.operator = name,
               !.accounts = ("SYS" :> [rev |-> 0, form |-> form]) @@ @]

\* nsc add account
NscAddAccount(st, ident, form) ==
    [st EXCEPT !.accounts = (ident :> [rev |-> 0, form |-> form]) @@ @]

\* nsc edit account / add export / add import: the account is signed again.
NscTouchAccount(st, ident) ==
    [st EXCEPT !.accounts[ident].rev = @ + 1]

\* nsc add user
NscAddUser(st, ident, user) == [st EXCEPT !.users = @ \cup {<<ident, user>>}]

\* nsc generate creds: the bundle (user JWT and seed) written to the file.
Bundle(ident, user) ==
    [kind |-> "creds", sub |-> SubjectId("U", ident \o "/" \o user)]

\* ------------------------------------------------------------ run state
VARIABLES
    raw,                \* the descriptor as given
    config,             \* NatsSetup.config: the descriptor after NatsSetup::new
    pc,                 \* the statement of initialize the run is at
    ai,                 \* the account the loop of initialize is at
    k,                  \* the export, import or user the inner loop is at
    si,                 \* the server being distributed to or rendered
    store,              \* the issuer's trust store (NatsSetup.store_dir)
    files,              \* the output directories: path -> content
    calls,              \* the issuer invocations made so far, with their exit
    operator_jwt,       \* initialize: operator_jwt
    default_sys_jwt,    \* initialize: default_sys_jwt
    default_sys_id,     \* initialize: default_sys_id
    issued,             \* initialize: account_jwt of each account so far
    account_jwt_paths,  \* initialize: account_jwt_paths
    user_creds_paths,   \* initialize: user_creds_paths
    resolver_preload,   \* initialize: resolver_preload
    system_account_id,  \* initialize: system_account_id
    server_config_paths,\* the configuration files written
    error,              \* the error the run returned
    result              \* the SetupResult the run returned

vars == <<raw, config, pc, ai, k, si, store, files, calls, operator_jwt,
          default_sys_jwt, default_sys_id, issued, account_jwt_paths,
          user_creds_paths, resolver_preload, system_account_id,
          server_config_paths, error, result>>

locals == <<operator_jwt, default_sys_jwt, default_sys_id, issued,
            account_jwt_paths, user_creds_paths, resolver_preload,
            system_account_id, server_config_paths>>

NoError == [kind |-> "", at |-> "", what |-> ""]

Init ==
    /\ raw \in Descriptors
    /\ \E seed \in Seeds : config = Normalize(raw, seed)
    /\ pc = "create_output_dir"
    /\ ai = 1 /\ k = 1 /\ si = 1
    /\ store = EmptyStore
    /\ files = <<>>
    /\ calls = <<>>
    /\ operator_jwt = None
    /\ default_sys_jwt = None
    /\ default_sys_id = ""
    /\ issued = <<>>
    /\ account_jwt_paths = <<>>
    /\ user_creds_paths = <<>>
    /\ resolver_preload = <<>>
    /\ system_account_id = None
    /\ server_config_paths = <<>>
    /\ error = NoError
    /\ result = None

Accts == AllAccounts(config)
Cur == Accts[ai].account
OutDir(i) == config.servers[i].output_dir
CurDir == OutDir(Accts[ai].server)

\* PathBuf::join
Join(dir, file) == <<dir, file>>

\* std::fs::write
WriteFile(fs, path, content) == (path :> content) @@ fs

\* std::fs::remove_file
RemoveFile(fs, path) == [p \in DOMAIN fs \ {path} |-> fs[p]]

\* An issuer invocation: the operation, its --account (or --name) argument,
\* its other argument, its --output-file, and whether it exited with zero.
CallTo(op, account, arg, file, ok) ==
    [op |-> op, account |-> account, arg |-> arg, file |-> file, ok |-> ok]

Call(op, account, arg, ok) == CallTo(op, account, arg, <<>>, ok)

\* `?` on an Err: initialize returns the error.
FailWith(kind, what) ==
    /\ pc' = "failed"
    /\ error' = [kind |-> kind, at |-> pc, what |-> what]

Fail(kind) == FailWith(kind, "")

\* lib.rs initialize, line 168: the account stands for the issuer's default
\* SYS account.
IsDefaultSys(a) == a.is_system_account /\ a.name = "SYS"

\* Where the run continues --------------------------------------------
At(p, i, j) == [pc |-> p, ai |-> i, k |-> j]

\* lib.rs initialize: the head of the account loop.
GotoAccount(i) ==
    IF i > Len(Accts) THEN At("system_account", i, 1)
    ELSE IF IsDefaultSys(Accts[i].account) THEN At("write_sys_jwt", i, 1)
    ELSE At("add_account", i, 1)

\* lib.rs create_account: the import loop.
AfterImports(i, j) ==
    IF j <= Len(Accts[i].account.imports) THEN At("add_import", i, j)
    ELSE At("read_account_jwt", i, 1)

\* lib.rs create_account: the export loop.
AfterExports(i, j) ==
    IF j <= Len(Accts[i].account.exports) THEN At("add_export", i, j)
    ELSE AfterImports(i, 1)

\* lib.rs create_account: should_edit.
ShouldEdit(a) == a.max_connections # None \/ a.max_payload # None

AfterAdd(i) ==
    IF ShouldEdit(Accts[i].account) THEN At("edit_account", i, 1)
    ELSE AfterExports(i, 1)

\* lib.rs initialize: the user loop of account i.
AfterUsers(i, j) ==
    IF j <= Len(Accts[i].account.users) THEN At("add_user", i, j)
    ELSE GotoAccount(i + 1)

Goto(t) == pc' = t.pc /\ ai' = t.ai /\ k' = t.k

\* ------------------------------------------------------------- the run
\* lib.rs initialize: create_dir_all(output_dir)
CreateOutputDir ==
    /\ pc = "create_output_dir"
    /\ \E ok \in BOOLEAN :
          IF ok THEN pc' = "create_operator" /\ error' = error
          ELSE Fail("ArtifactIO")
    /\ UNCHANGED <<raw, config, ai, k, si, store, files, calls, locals,
                   result>>

\* lib.rs initialize: the operator_jwt branch, and create_operator up to the
\* exit status of `nsc init`.
CreateOperator ==
    /\ pc = "create_operator"
    /\ IF config.operator.reuse_existing
       THEN \* unimplemented!()
            /\ pc' = "panicked"
            /\ UNCHANGED <<store, calls, error>>
       ELSE \E ok \in BOOLEAN, form \in TokenForms :
            /\ calls' = Append(calls,
                               Call("init", "", config.operator.name, ok))
            /\ IF ok
               THEN /\ store' = NscInit(store, config.operator.name, form)
                    /\ pc' = "read_operator_jwt"
                    /\ error' = error
               ELSE /\ store' = store
                    /\ Fail("IssuerInvocationFailure")
    /\ UNCHANGED <<raw, config, ai, k, si, files, locals, result>>

\* lib.rs create_operator: read_to_string(operator_jwt_path)
ReadOperatorJwt ==
    /\ pc = "read_operator_jwt"
    /\ \E ok \in BOOLEAN :
          IF ok
          THEN /\ operator_jwt' = Some(StoredOperatorJwt(store))
               /\ pc' = "write_operator_jwt"
               /\ error' = error
          ELSE /\ operator_jwt' = operator_jwt
               /\ Fail("ArtifactIO")
    /\ UNCHANGED <<raw, config, ai, k, si, store, files, calls,
                   default_sys_jwt, default_sys_id, issued,
                   account_jwt_paths, user_creds_paths, resolver_preload,
                   system_account_id, server_config_paths, result>>

OperatorJwtPath == Join(OutDir(1), "operator.jwt")

\* lib.rs initialize: write(operator_jwt_path, operator_jwt)
WriteOperatorJwt ==
    /\ pc = "write_operator_jwt"
    /\ \E ok \in BOOLEAN :
          IF ok
          THEN /\ files' = WriteFile(files, OperatorJwtPath, operator_jwt[1])
               /\ pc' = "read_default_sys"
               /\ error' = error
          ELSE /\ files' = files
               /\ Fail("ArtifactIO")
    /\ UNCHANGED <<raw, config, ai, k, si, store, calls, locals, result>>

\* lib.rs initialize: the default SYS account of `nsc init` is read and its
\* subject id extracted.
ReadDefaultSys ==
    /\ pc = "read_default_sys"
    /\ \E ok \in BOOLEAN :
          LET jwt == StoredAccountJwt(store, "SYS")
              id == extract_account_id(jwt)
          IN IF ~ok
             THEN /\ Fail("ArtifactIO")
                  /\ UNCHANGED <<default_sys_jwt, default_sys_id, ai, k>>
             ELSE IF ~id.ok
             THEN /\ Fail(id.value)
                  /\ UNCHANGED <<default_sys_jwt, default_sys_id, ai, k>>
             ELSE /\ default_sys_jwt' = Some(jwt)
                  /\ default_sys_id' = id.value
                  /\ Goto(GotoAccount(1))
                  /\ error' = error
    /\ UNCHANGED <<raw, config, si, store, files, calls, operator_jwt,
                   issued, account_jwt_paths, user_creds_paths,
                   resolver_preload, system_account_id,
                   server_config_paths, result>>

\* format!("    {}: \"{}\"", account_id, account_jwt)
MutPreloadEntry(id, jwt) == [key |-> jwt.payload.claims.name, value |-> jwt]
PreloadEntry(id, jwt) == [key |-> id, value |-> jwt]

\* lib.rs initialize: the branch of the loop for the default SYS account.
MutWriteSysJwt ==
    /\ pc = "write_sys_jwt"
    /\ \E ok \in BOOLEAN :
          LET path == Join(CurDir, "SYS.jwt")
          IN IF ok
             THEN /\ files' = WriteFile(files, path, default_sys_jwt[1])
                  /\ account_jwt_paths' = Append(account_jwt_paths, path)
                  /\ system_account_id' = Some(default_sys_id)
                  /\ resolver_preload' = resolver_preload
                  /\ issued' = Append(issued, default_sys_jwt[1])
                  /\ Goto(AfterUsers(ai, 1))
                  /\ error' = error
             ELSE /\ Fail("ArtifactIO")
                  /\ UNCHANGED <<files, account_jwt_paths, system_account_id,
                                 resolver_preload, issued, ai, k>>
    /\ UNCHANGED <<raw, config, si, store, calls, operator_jwt,
                   default_sys_jwt, default_sys_id, user_creds_paths,
                   server_config_paths, result>>
WriteSysJwt ==
    /\ pc = "write_sys_jwt"
    /\ \E ok \in BOOLEAN :
          LET path == Join(CurDir, "SYS.jwt")
          IN IF ok
             THEN /\ files' = WriteFile(files, path, default_sys_jwt[1])
                  /\ account_jwt_paths' = Append(account_jwt_paths, path)
                  /\ system_account_id' = Some(default_sys_id)
                  /\ resolver_preload' =
                        Append(resolver_preload,
                               PreloadEntry(default_sys_id,
                                            default_sys_jwt[1]))
                  /\ issued' = Append(issued, default_sys_jwt[1])
                  /\ Goto(AfterUsers(ai, 1))
                  /\ error' = error
             ELSE /\ Fail("ArtifactIO")
                  /\ UNCHANGED <<files, account_jwt_paths, system_account_id,
                                 resolver_preload, issued, ai, k>>
    /\ UNCHANGED <<raw, config, si, store, calls, operator_jwt,
                   default_sys_jwt, default_sys_id, user_creds_paths,
                   server_config_paths, result>>

\* The identifier create_account hands the issuer for the account.
AccountIdent(a) == a.unique_name

\* lib.rs create_account: `nsc add account --name <unique_name>`
MutAddAccount ==
    /\ pc = "add_account"
    /\ \E ok \in (IF HasAccount(store, AccountIdent(Cur))
                  THEN {FALSE} ELSE BOOLEAN),
          form \in TokenForms :
          /\ calls' = Append(calls,
                             Call("add_account", AccountIdent(Cur), "", ok))
          /\ IF ok
             THEN /\ store' = NscAddAccount(store, AccountIdent(Cur), form)
                  /\ Goto(AfterAdd(ai))
             ELSE /\ store' = store
                  /\ UNCHANGED <<pc, ai, k>>
          /\ error' = error
    /\ UNCHANGED <<raw, config, si, files, locals, result>>
AddAccount ==
    /\ pc = "add_account"
    /\ \E ok \in (IF HasAccount(store, AccountIdent(Cur))
                  THEN {FALSE} ELSE BOOLEAN),
          form \in TokenForms :
          /\ calls' = Append(calls,
                             Call("add_account", AccountIdent(Cur), "", ok))
          /\ IF ok
             THEN /\ store' = NscAddAccount(store, AccountIdent(Cur), form)
                  /\ Goto(AfterAdd(ai))
                  /\ error' = error
             ELSE /\ store' = store
                  /\ Fail("IssuerInvocationFailure")
                  /\ UNCHANGED <<ai, k>>
    /\ UNCHANGED <<raw, config, si, files, locals, result>>

\* lib.rs create_account: `nsc edit account --name <unique_name> --conns ..`
MutEditAccount ==
    /\ pc = "edit_account"
    /\ \E ok \in BOOLEAN :
          /\ calls' = Append(calls,
                             Call("edit_account", AccountIdent(Cur), "", ok))
          /\ store' = IF ok THEN NscTouchAccount(store, AccountIdent(Cur))
                      ELSE store
          /\ Goto(AfterExports(ai, 1))
          /\ error' = error
    /\ UNCHANGED <<raw, config, si, files, locals, result>>
EditAccount ==
    /\ pc = "edit_account"
    /\ \E ok \in BOOLEAN :
          /\ calls' = Append(calls,
                             Call("edit_account", AccountIdent(Cur), "", ok))
          /\ IF ok
             THEN /\ store' = NscTouchAccount(store, AccountIdent(Cur))
                  /\ Goto(AfterExports(ai, 1))
                  /\ error' = error
             ELSE /\ store' = store
                  /\ Fail("IssuerInvocationFailure")
                  /\ UNCHANGED <<ai, k>>
    /\ UNCHANGED <<raw, config, si, files, locals, result>>

\* lib.rs create_account: `nsc add export --subject <s> --account <unique_name>`
AddExport ==
    /\ pc = "add_export"
    /\ \E ok \in BOOLEAN :
          /\ calls' = Append(calls,
                             Call("add_export", AccountIdent(Cur),
                                  Cur.exports[k].subject, ok))
          /\ IF ok
             THEN /\ store' = NscTouchAccount(store, AccountIdent(Cur))
                  /\ Goto(AfterExports(ai, k + 1))
                  /\ error' = error
             ELSE /\ store' = store
                  /\ Fail("IssuerInvocationFailure")
                  /\ UNCHANGED <<ai, k>>
    /\ UNCHANGED <<raw, config, si, files, locals, result>>

\* The identifier create_account hands the issuer as --src-account.
ImportSource(imp) == imp.account

\* lib.rs create_account: `nsc add import --src-account <import.account>
\* --subject <s> --account <unique_name>`.  The issuer rejects a source
\* account its store does not hold.
AddImport ==
    /\ pc = "add_import"
    /\ \E ok \in (IF HasAccount(store, ImportSource(Cur.imports[k]))
                  THEN BOOLEAN ELSE {FALSE}) :
          /\ calls' = Append(calls,
                             Call("add_import", AccountIdent(Cur),
                                  ImportSource(Cur.imports[k]), ok))
          /\ IF ok
             THEN /\ store' = NscTouchAccount(store, AccountIdent(Cur))
                  /\ Goto(AfterImports(ai, k + 1))
                  /\ error' = error
             ELSE /\ store' = store
                  /\ Fail("IssuerInvocationFailure")
                  /\ UNCHANGED <<ai, k>>
    /\ UNCHANGED <<raw, config, si, files, locals, result>>

\* lib.rs create_account: read_to_string(account_jwt_path)
ReadAccountJwt ==
    /\ pc = "read_account_jwt"
    /\ \E ok \in BOOLEAN :
          IF ok
          THEN /\ issued' = Append(issued,
                                   StoredAccountJwt(store, AccountIdent(Cur)))
               /\ pc' = "write_account_jwt"
               /\ error' = error
          ELSE /\ issued' = issued
               /\ Fail("ArtifactIO")
    /\ UNCHANGED <<raw, config, ai, k, si, store, files, calls, operator_jwt,
                   default_sys_jwt, default_sys_id, account_jwt_paths,
                   user_creds_paths, resolver_preload, system_account_id,
                   server_config_paths, result>>

\* lib.rs initialize: output_dir.join(format!("{}.jwt", account.name))
AccountJwtFile(a) == a.name \o ".jwt"

\* lib.rs initialize: the account's JWT is written to <output_dir>/<name>.jwt
\* and the path pushed.
WriteAccountJwt ==
    /\ pc = "write_account_jwt"
    /\ \E ok \in BOOLEAN :
          LET path == Join(CurDir, AccountJwtFile(Cur))
          IN IF ok
             THEN /\ files' = WriteFile(files, path, issued[ai])
                  /\ account_jwt_paths' = Append(account_jwt_paths, path)
                  /\ pc' = "extract_account_id"
                  /\ error' = error
             ELSE /\ Fail("ArtifactIO")
                  /\ UNCHANGED <<files, account_jwt_paths>>
    /\ UNCHANGED <<raw, config, ai, k, si, store, calls, operator_jwt,
                   default_sys_jwt, default_sys_id, issued, user_creds_paths,
                   resolver_preload, system_account_id, server_config_paths,
                   result>>

\* lib.rs initialize: the account's subject id is extracted from its JWT; it
\* becomes the system account id if the account is the system account, and
\* the account's preload entry is pushed.
ExtractAccountId ==
    /\ pc = "extract_account_id"
    /\ LET id == extract_account_id(issued[ai])
       IN IF ~id.ok
          THEN /\ Fail(id.value)
               /\ UNCHANGED <<system_account_id, resolver_preload, ai, k>>
          ELSE /\ system_account_id' =
                     IF Cur.is_system_account THEN Some(id.value)
                     ELSE system_account_id
               /\ resolver_preload' =
                     Append(resolver_preload,
                            PreloadEntry(id.value, issued[ai]))
               /\ Goto(AfterUsers(ai, 1))
               /\ error' = error
    /\ UNCHANGED <<raw, config, si, store, files, calls, operator_jwt,
                   default_sys_jwt, default_sys_id, issued,
                   account_jwt_paths, user_creds_paths, server_config_paths,
                   result>>

\* lib.rs create_user: the identifier handed to the issuer as --account.
UserAccount(a) == a.unique_name

\* lib.rs create_user: `nsc add user --name <user> --account <unique_name>`
AddUser ==
    /\ pc = "add_user"
    /\ LET ident == UserAccount(Cur)
           user == Cur.users[k].name
       IN \E ok \in (IF HasAccount(store, ident)
                        /\ <<ident, user>> \notin store.users
                     THEN BOOLEAN ELSE {FALSE}) :
          /\ calls' = Append(calls, Call("add_user", ident, user, ok))
          /\ IF ok
             THEN /\ store' = NscAddUser(store, ident, user)
                  /\ pc' = "generate_creds"
                  /\ error' = error
             ELSE /\ store' = store
                  /\ Fail("IssuerInvocationFailure")
    /\ UNCHANGED <<raw, config, ai, k, si, files, locals, result>>

\* lib.rs create_user: remove_file(creds_path), then `nsc generate creds
\* --account <unique_name> --name <user> --output-file <creds_path>`; on
\* success initialize pushes creds_path.
GenerateCreds ==
    /\ pc = "generate_creds"
    /\ LET ident == UserAccount(Cur)
           user == Cur.users[k].name
           path == Join(CurDir, CredsFileName(Cur.name, user))
       IN \E ok \in BOOLEAN :
          /\ calls' = Append(calls,
                             CallTo("generate_creds", ident, user, path, ok))
          /\ IF ok
             THEN /\ files' = WriteFile(RemoveFile(files, path), path,
                                        Bundle(ident, user))
                  /\ user_creds_paths' = Append(user_creds_paths, path)
                  /\ Goto(AfterUsers(ai, k + 1))
                  /\ error' = error
             ELSE /\ files' = RemoveFile(files, path)
                  /\ user_creds_paths' = user_creds_paths
                  /\ Fail("IssuerInvocationFailure")
                  /\ UNCHANGED <<ai, k>>
    /\ UNCHANGED <<raw, config, si, store, operator_jwt, default_sys_jwt,
                   default_sys_id, issued, account_jwt_paths,
                   resolver_preload, system_account_id, server_config_paths,
                   result>>

\* lib.rs initialize: system_account_id.ok_or_else(..)?
SystemAccount ==
    /\ pc = "system_account"
    /\ IF system_account_id = None
       THEN Fail("ConfigValidation") /\ si' = si
       ELSE pc' = "distribute" /\ si' = 1 /\ error' = error
    /\ UNCHANGED <<raw, config, ai, k, store, files, calls, locals, result>>

Range(f) == {f[j] : j \in DOMAIN f}

\* The account tokens by account name, as generate_server_config of
\* server.rs receives them (account_jwts: HashMap<String, String>).  The
\* code that fills the map is not under src/: every account of the
\* deployment is entered under its name (spec.md 4.4).
AccountJwts ==
    [n \in {Accts[j].account.name : j \in 1..Len(issued)} |->
        issued[Max({j \in 1..Len(issued) : Accts[j].account.name = n})]]

\* spec.md 4.3: every server's output location receives a copy of every
\* account's JWT, as <account>.jwt (spec.md 6).
RECURSIVE ReplicateJwts(_, _, _)
ReplicateJwts(fs, dir, j) ==
    IF j > Len(issued) THEN fs
    ELSE ReplicateJwts(
            WriteFile(fs, Join(dir, AccountJwtFile(Accts[j].account)),
                      issued[j]),
            dir, j + 1)

\* spec.md 4.3: the produced credential bundles with the file name a remote
\* names, anywhere in the deployment.
MutBundlesNamed(file) == Range(user_creds_paths)
BundlesNamed(file) == {p \in Range(user_creds_paths) : p[2] = file}

MutCopyBundles(fs, dir, remotes, pick, j) == fs
RECURSIVE CopyBundles(_, _, _, _, _)
CopyBundles(fs, dir, remotes, pick, j) ==
    IF j > Len(remotes) THEN fs
    ELSE CopyBundles(
            WriteFile(fs, Join(dir, remotes[j].credentials), files[pick[j]]),
            dir, remotes, pick, j + 1)

\* The first remote of `remotes` whose credential file nobody produced (0 if
\* there is none).
FirstMissing(remotes) ==
    LET bad == {j \in 1..Len(remotes) :
                   BundlesNamed(remotes[j].credentials) = {}}
    IN IF bad = {} THEN 0 ELSE Min(bad)

\* spec.md 4.3 (CredentialDistributor), for one server: each remote's
\* credential bundle is located by file name (MissingCredential if there is
\* none); the account JWTs are replicated and the bundles copied unmodified.
Distribute ==
    /\ pc = "distribute"
    /\ LET server == config.servers[si]
           remotes == server.leafnodes.remotes
           jwts == ReplicateJwts(files, server.output_dir, 1)
           missing == FirstMissing(remotes)
       IN \E ok \in BOOLEAN :
          IF ~ok
          THEN Fail("ArtifactIO") /\ UNCHANGED <<files, si>>
          ELSE IF missing # 0
          THEN /\ FailWith("MissingCredential", remotes[missing].credentials)
               /\ UNCHANGED <<files, si>>
          ELSE \E pick \in {f \in [1..Len(remotes) -> Range(user_creds_paths)] :
                               \A j \in 1..Len(remotes) :
                                  f[j] \in BundlesNamed(remotes[j].credentials)} :
               /\ files' = CopyBundles(jwts, server.output_dir, remotes,
                                       pick, 1)
               /\ IF si < Len(config.servers)
                  THEN si' = si + 1 /\ pc' = pc
                  ELSE si' = 1 /\ pc' = "write_server_config"
               /\ error' = error
    /\ UNCHANGED <<raw, config, ai, k, store, calls, locals, result>>

\* server.rs generate_server_config: the leafnode remotes block.
MutRemoteEntry(server, remote, account_jwts) ==
    [url |-> remote.url,
     account |-> extract_account_id(account_jwts[remote.account]).value,
     credentials |-> Join(".", remote.credentials)]
RemoteEntry(server, remote, account_jwts) ==
    [url |-> remote.url,
     account |-> extract_account_id(account_jwts[remote.account]).value,
     credentials |-> Join(server.output_dir, remote.credentials)]

\* server.rs generate_server_config: the two `panic!`s of the remotes loop.
RenderPanics(server, account_jwts) ==
    \E j \in 1..Len(server.leafnodes.remotes) :
        LET remote == server.leafnodes.remotes[j]
        IN \/ remote.account \notin DOMAIN account_jwts
           \/ ~extract_account_id(account_jwts[remote.account]).ok

\* server.rs generate_server_config: `operator: "<operator_jwt>"`.
MutOperatorSection(op_jwt) ==
    [sec |-> "operator", value |-> [op_jwt EXCEPT !.payload.claims.rev = @ + 1]]
OperatorSection(op_jwt) == [sec |-> "operator", value |-> op_jwt]

\* server.rs generate_server_config: the text, as its blocks in the order
\* they are pushed.
MutGenerateServerConfig(server, op_jwt, sys_id, preload, account_jwts) ==
    <<[sec |-> "port", port |-> server.port, server_name |-> server.name]>>
    \o (IF server.jetstream.enabled
        THEN <<[sec |-> "jetstream", jetstream |-> server.jetstream]>>
        ELSE <<>>)
    \o (IF server.tls # None
        THEN <<[sec |-> "tls", tls |-> server.tls[1]]>> ELSE <<>>)
    \o (IF server.leafnodes.port # None
        THEN <<[sec |-> "leafnodes_port", port |-> server.leafnodes.port[1]]>>
        ELSE <<>>)
    \o (IF server.mappings.entries # {}
        THEN <<[sec |-> "mappings", entries |-> server.mappings.iter]>>
        ELSE <<>>)
    \o (IF server.leafnodes.remotes # <<>>
        THEN <<[sec |-> "leafnodes_remotes",
                entries |-> [j \in 1..Len(server.leafnodes.remotes) |->
                                RemoteEntry(server,
                                            server.leafnodes.remotes[j],
                                            account_jwts)]]>>
        ELSE <<>>)
    \o <<OperatorSection(op_jwt),
         [sec |-> "system_account", value |-> sys_id],
         [sec |-> "resolver", value |-> "MEMORY"]>>
    \o (IF preload # <<>>
        THEN <<[sec |-> "resolver_preload", entries |-> preload]>>
        ELSE <<>>)
generate_server_config(server, op_jwt, sys_id, preload, account_jwts) ==
    <<[sec |-> "port", port |-> server.port, server_name |-> server.name]>>
    \o (IF server.jetstream.enabled
        THEN <<[sec |-> "jetstream", jetstream |-> server.jetstream]>>
        ELSE <<>>)
    \o (IF server.tls # None
        THEN <<[sec |-> "tls", tls |-> server.tls[1]]>> ELSE <<>>)
    \o (IF server.mappings.entries # {}
        THEN <<[sec |-> "mappings", entries |-> server.mappings.iter]>>
        ELSE <<>>)
    \o (IF server.leafnodes.port # None
        THEN <<[sec |-> "leafnodes_port", port |-> server.leafnodes.port[1]]>>
        ELSE <<>>)
    \o (IF server.leafnodes.remotes # <<>>
        THEN <<[sec |-> "leafnodes_remotes",
                entries |-> [j \in 1..Len(server.leafnodes.remotes) |->
                                RemoteEntry(server,
                                            server.leafnodes.remotes[j],
                                            account_jwts)]]>>
        ELSE <<>>)
    \o <<OperatorSection(op_jwt),
         [sec |-> "system_account", value |-> sys_id],
         [sec |-> "resolver", value |-> "MEMORY"]>>
    \o (IF preload # <<>>
        THEN <<[sec |-> "resolver_preload", entries |-> preload]>>
        ELSE <<>>)

ConfigFile(text) == [kind |-> "conf", text |-> text]

\* config.rs SetupResult
MutManifest(paths) ==
    [operator_jwt_path |-> OperatorJwtPath,
     account_jwt_paths |-> user_creds_paths,
     user_creds_paths |-> account_jwt_paths,
     server_config_path |-> paths[1],
     server_config_paths |-> Some(paths)]
Manifest(paths) ==
    [operator_jwt_path |-> OperatorJwtPath,
     account_jwt_paths |-> account_jwt_paths,
     user_creds_paths |-> user_creds_paths,
     server_config_path |-> paths[1],
     server_config_paths |-> Some(paths)]

\* lib.rs initialize: the configuration of a server is rendered and written
\* to <output_dir>/nats.conf; after the last one the SetupResult is returned.
WriteServerConfig ==
    /\ pc = "write_server_config"
    /\ LET server == config.servers[si]
           path == Join(server.output_dir, "nats.conf")
       IN IF RenderPanics(server, AccountJwts)
          THEN /\ pc' = "panicked"
               /\ UNCHANGED <<files, server_config_paths, si, error, result>>
          ELSE \E ok \in BOOLEAN :
               IF ~ok
               THEN /\ Fail("ArtifactIO")
                    /\ UNCHANGED <<files, server_config_paths, si, result>>
               ELSE /\ files' =
                          WriteFile(files, path,
                                    ConfigFile(generate_server_config(
                                        server, operator_jwt[1],
                                        system_account_id[1],
                                        resolver_preload, AccountJwts)))
                    /\ server_config_paths' = Append(server_config_paths, path)
                    /\ error' = error
                    /\ IF si < Len(config.servers)
                       THEN si' = si + 1 /\ pc' = pc /\ result' = result
                       ELSE /\ si' = si
                            /\ pc' = "done"
                            /\ result' = Some(Manifest(server_config_paths'))
    /\ UNCHANGED <<raw, config, ai, k, store, calls, operator_jwt,
                   default_sys_jwt, default_sys_id, issued,
                   account_jwt_paths, user_creds_paths, resolver_preload,
                   system_account_id>>

Next ==
    \/ CreateOutputDir
    \/ CreateOperator
    \/ ReadOperatorJwt
    \/ WriteOperatorJwt
    \/ ReadDefaultSys
    \/ WriteSysJwt
    \/ AddAccount
    \/ EditAccount
    \/ AddExport
    \/ AddImport
    \/ ReadAccountJwt
    \/ WriteAccountJwt
    \/ ExtractAccountId
    \/ AddUser
    \/ GenerateCreds
    \/ SystemAccount
    \/ Distribute
    \/ WriteServerConfig

Spec == Init /\ [][Next]_vars

\* ------------------------------------------------- the renderer on its own
\* generate_server_config applied twice to equal inputs.  Here `raw` holds the
\* inputs of the rendering, `si` counts the renderings and `files` keeps the
\* text of each.
MappingPairs == {<<"orders.*", "o.$1">>, <<"events.*", "e.$1">>}

RenderServers ==
    {[name |-> "s1", port |-> 4222, output_dir |-> "out1",
      jetstream |-> [enabled |-> js],
      leafnodes |-> [port |-> lp, remotes |-> rem],
      accounts |-> <<>>,
      tls |-> tls,
      mappings |-> HashMapOf(m, <<>>)] :
        js \in BOOLEAN, lp \in {None, Some(7422)},
        rem \in BSeq(RemoteConfigs, MaxRemotes),
        tls \in {None, Some([cert_file |-> "cert.pem", key_file |-> "key.pem",
                             ca_file |-> None])},
        m \in SUBSET MappingPairs}

RenderInputs ==
    [server : RenderServers,
     operator_jwt : {Token("jwt", "O", "op", 0)},
     system_account_id : {SubjectId("A", "SYS")},
     resolver_preload :
        {<<>>, <<PreloadEntry(SubjectId("A", "SYS"),
                              Token("jwt", "A", "SYS", 0))>>},
     account_jwts :
        {[n \in {"A", "B"} |-> Token("jwt", "A", n \o d, 0)] :
            d \in {"", "-" \o Uuid("a", 1, 1)}}]

RenderInit ==
    /\ raw \in RenderInputs
    /\ config = raw
    /\ pc = "render"
    /\ ai = 1 /\ k = 1 /\ si = 1
    /\ store = EmptyStore
    /\ files = <<>>
    /\ calls = <<>>
    /\ operator_jwt = None
    /\ default_sys_jwt = None
    /\ default_sys_id = ""
    /\ issued = <<>>
    /\ account_jwt_paths = <<>>
    /\ user_creds_paths = <<>>
    /\ resolver_preload = <<>>
    /\ system_account_id = None
    /\ server_config_paths = <<>>
    /\ error = NoError
    /\ result = None

RenderPath(n) == <<"rendering", ToString(n)>>

\* One call of generate_server_config on a model equal to the inputs: the
\* HashMap of mappings iterates in one of its instance's possible orders.
Render ==
    /\ pc = "render"
    /\ \E it \in IterationOrders(raw.server.mappings.entries) :
          LET server == [raw.server EXCEPT !.mappings.iter = it]
          IN files' = WriteFile(files, RenderPath(si),
                                ConfigFile(generate_server_config(
                                    server, raw.operator_jwt,
                                    raw.system_account_id,
                                    raw.resolver_preload,
                                    raw.account_jwts)))
    /\ si' = si + 1
    /\ pc' = IF si = 2 THEN "rendered" ELSE "render"
    /\ UNCHANGED <<raw, config, ai, k, store, calls, locals, error, result>>

RenderSpec == RenderInit /\ [][Render]_vars

\* ------------------------------------------- extract_account_id on its own
\* The tokens extract_account_id is applied to: any number of segments, a
\* second segment that is not base64, not UTF-8, not JSON, or JSON; the JSON
\* an object with or without "sub" (a string or not), or an array.  Here
\* `raw` holds the token and `result` what extract_account_id returned.
MaxSegments == 4
PayloadEncodings == {"notb64", "notutf8", "notjson", "b64json"}
ClaimSets ==
    {[sub |-> JsonString(SubjectId("A", n)), name |-> n] : n \in AccountNames}
    \cup {[sub |-> JsonNumber(7), name |-> n] : n \in AccountNames}
    \cup {[name |-> n] : n \in AccountNames}
    \cup {JsonArray(0), JsonArray(2)}
Tokens ==
    [segments : 1..MaxSegments,
     payload : [enc : PayloadEncodings, claims : ClaimSets]]

ExtractInit ==
    /\ raw \in Tokens
    /\ config = raw
    /\ pc = "extract"
    /\ ai = 1 /\ k = 1 /\ si = 1
    /\ store = EmptyStore
    /\ files = <<>>
    /\ calls = <<>>
    /\ operator_jwt = None
    /\ default_sys_jwt = None
    /\ default_sys_id = ""
    /\ issued = <<>>
    /\ account_jwt_paths = <<>>
    /\ user_creds_paths = <<>>
    /\ resolver_preload = <<>>
    /\ system_account_id = None
    /\ server_config_paths = <<>>
    /\ error = NoError
    /\ result = None

Extract ==
    /\ pc = "extract"
    /\ result' = Some(extract_account_id(raw))
    /\ pc' = "extracted"
    /\ UNCHANGED <<raw, config, ai, k, si, store, files, calls, locals,
                   error>>

ExtractSpec == ExtractInit /\ [][Extract]_vars

\* ------------------------------------------------ create_user's arguments
\* The arguments create_user hands to `nsc add user`, on their own.  Here
\* `raw` holds a user as the descriptor document gives it, `config` the
\* UserConfig it deserializes to, and `calls` the argument list built.
Subjects == {"test.sub.>", "test.pub.>"}
SubjectLists == {<<>>} \cup {<<s>> : s \in Subjects}
Expiries == {None, Some([date |-> "2025-12-31", time |-> ""]),
             Some([date |-> "2025-12-31", time |-> "23:59:59Z"])}

\* A user of the descriptor document; `allowed_publishes` is a key of the
\* document that UserConfig has no field for.
UserDocuments ==
    [name : UserNames,
     allowed_publishes : SubjectLists,
     allowed_subjects : SubjectLists,
     denied_subjects : SubjectLists,
     expiry : Expiries]

\* serde's derive(Deserialize) on UserConfig: the declared fields are read,
\* any other key of the document is ignored.
DeserializeUser(doc) ==
    [name |-> doc.name,
     allowed_subjects |-> doc.allowed_subjects,
     denied_subjects |-> doc.denied_subjects,
     expiry |-> doc.expiry]

\* One `--flag value` pair of the command line.
Arg(flag, value) == [flag |-> flag, value |-> value]

\* expiry.split('T').next(): the date in front of the 'T', or the whole
\* string when there is no 'T'.
NscExpiry(expiry) == expiry.date

\* create_user: the arguments after `nsc add user`.
UserArgs(unique_name, user) ==
    <<Arg("--name", user.name), Arg("--account", unique_name)>>
    \o (IF user.allowed_subjects # <<>>
        THEN <<Arg("--allow-pubsub", user.allowed_subjects)>> ELSE <<>>)
    \o (IF user.denied_subjects # <<>>
        THEN <<Arg("--deny-pubsub", user.denied_subjects)>> ELSE <<>>)
    \o (IF user.expiry # None
        THEN <<Arg("--expiry", NscExpiry(user.expiry[1]))>> ELSE <<>>)

UserArgsInit ==
    /\ raw \in UserDocuments
    /\ config = DeserializeUser(raw)
    /\ pc = "add_user"
    /\ ai = 1 /\ k = 1 /\ si = 1
    /\ store = EmptyStore
    /\ files = <<>>
    /\ calls = <<>>
    /\ operator_jwt = None
    /\ default_sys_jwt = None
    /\ default_sys_id = ""
    /\ issued = <<>>
    /\ account_jwt_paths = <<>>
    /\ user_creds_paths = <<>>
    /\ resolver_preload = <<>>
    /\ system_account_id = None
    /\ server_config_paths = <<>>
    /\ error = NoError
    /\ result = None

BuildUserArgs ==
    /\ pc = "add_user"
    /\ calls' = UserArgs("A", config)
    /\ pc' = "generate_creds"
    /\ UNCHANGED <<raw, config, ai, k, si, store, files, locals, error,
                   result>>

UserArgsSpec == UserArgsInit /\ [][BuildUserArgs]_vars

\* ---------------------------------------------------------- import graph
N == Len(Accts)
Acct(j) == Accts[j].account
DeclaredNames == {Acct(j).name : j \in 1..N}
ImportTargets(j) == {Acct(j).imports[m].account : m \in DOMAIN Acct(j).imports}

\* Account e is named as the exporter by an import of account i.
Edge(e, i) == Acct(e).name \in ImportTargets(i)

RECURSIVE Reaches(_, _, _)
Reaches(e, i, n) ==
    \/ Edge(e, i)
    \/ /\ n > 1
       /\ \E m \in 1..N : Edge(e, m) /\ Reaches(m, i, n - 1)

HasCycle == \E j \in 1..N : Reaches(j, j, N)
UnknownImportTarget == \E j \in 1..N : ImportTargets(j) \ DeclaredNames # {}

\* The issuer invocation that creates account j: `add account` under its
\* identifier, or `init` for the default SYS account.
Creates(c, j) ==
    /\ c.ok
    /\ IF IsDefaultSys(Acct(j)) THEN c.op = "init"
       ELSE c.op = "add_account" /\ c.account = Acct(j).unique_name
CreatedBefore(j, n) == \E m \in 1..(n - 1) : Creates(calls[m], j)
Created(j) == CreatedBefore(j, Len(calls) + 1)

\* ------------------------------------------------------------- claims
\* C1: when the import graph has no cycle, accounts are created in a
\* topological order of it: whenever an importing account has been created,
\* every account it imports from has been created already.
C1_CreationOrderIsTopological ==
    ~HasCycle =>
        \A e \in 1..N, i \in 1..N : (Edge(e, i) /\ Created(i)) => Created(e)

\* C2: `add import` is invoked for a pair of declared accounts only after the
\* importer and the exporter have both been created in the trust store.
C2_ImportAfterBothCreated ==
    \A n \in DOMAIN calls :
        (calls[n].op = "add_import" /\ calls[n].arg \in DeclaredNames) =>
            /\ \E i \in 1..N : /\ Acct(i).unique_name = calls[n].account
                              /\ CreatedBefore(i, n)
            /\ \E e \in 1..N : /\ Acct(e).name = calls[n].arg
                              /\ CreatedBefore(e, n)

\* C3: a descriptor with an import whose target is no declared account makes
\* the run fail before any issuer invocation: nothing is invoked, nothing is
\* written, and the run does not succeed.
C3_UnknownImportFailsBeforeAnyCall ==
    UnknownImportTarget =>
        /\ calls = <<>>
        /\ DOMAIN files = {}
        /\ pc # "done"

\* The statements of the run that precede the resolution of the creation
\* order (spec.md 4.1: Normalize, CreateOperator, the system-account
\* fallback).
OperatorStage ==
    {"create_output_dir", "create_operator", "read_operator_jwt",
     "write_operator_jwt", "read_default_sys"}

\* C4: a descriptor whose import graph has a cycle never reaches Done, and
\* once the operator exists the run fails with DependencyCycle.
C4_CycleFailsWithDependencyCycle ==
    HasCycle =>
        /\ pc # "done"
        /\ (pc = "failed" /\ error.at \notin OperatorStage)
              => error.kind = "DependencyCycle"

\* C5: once a step fails the run ends in failure with that error: an issuer
\* invocation that exited with non-zero status is the last one made, the run
\* is failed with IssuerInvocationFailure and returns no manifest; a
\* successful run has no failed invocation and no error; and after the
\* failure no invocation is made, no file is written, no manifest returned.
FailedCallEndsRun ==
    /\ \A n \in DOMAIN calls :
          ~calls[n].ok => /\ n = Len(calls)
                          /\ pc = "failed"
                          /\ error.kind = "IssuerInvocationFailure"
    /\ (error.kind # "") <=> (pc = "failed")
    /\ pc = "failed" => result = None
    /\ pc = "done" => result # None
NothingAfterFailure ==
    pc = "failed" =>
        /\ calls' = calls
        /\ files' = files
        /\ store' = store
        /\ error' = error
        /\ result' = None
C5_FailureAborts == [](FailedCallEndsRun) /\ [][NothingAfterFailure]_vars

\* C5 witness: an invocation failed after the operator's JWT was written.
C5_Witness ==
    /\ pc = "failed"
    /\ Len(calls) > 1
    /\ ~calls[Len(calls)].ok
    /\ OperatorJwtPath \in DOMAIN files

\* C6: when the run fails, every file the run wrote before the failing step
\* is still there, with the content it had.
C6_FilesSurviveFailure ==
    [][pc' = "failed" =>
          \A p \in DOMAIN files : p \in DOMAIN files' /\ files'[p] = files[p]]_vars

ServerRemotes(i) == config.servers[i].leafnodes.remotes

\* C7: after a successful run, for every remote of every server the file
\* <output_dir>/<credentials> exists and is the bundle the issuer produced
\* for a user whose credential file has that name.
C7_RemoteCredentialsPresent ==
    pc = "done" =>
        \A i \in DOMAIN config.servers : \A j \in DOMAIN ServerRemotes(i) :
            LET file == ServerRemotes(i)[j].credentials
                path == <<config.servers[i].output_dir, file>>
            IN /\ path \in DOMAIN files
               /\ \E n \in DOMAIN calls :
                     /\ calls[n].op = "generate_creds"
                     /\ calls[n].ok
                     /\ calls[n].file[2] = file
                     /\ files[path] = Bundle(calls[n].account, calls[n].arg)

\* C7 witness: a successful run in which a server's remote names a bundle
\* that was produced in another server's directory only.
C7_Witness ==
    /\ pc = "done"
    /\ \E i \in DOMAIN config.servers : \E j \in DOMAIN ServerRemotes(i) :
          \A n \in DOMAIN calls :
             (calls[n].op = "generate_creds"
              /\ calls[n].file[2] = ServerRemotes(i)[j].credentials)
                => calls[n].file[1] # config.servers[i].output_dir

\* The credential file names the users of the descriptor give rise to.
ProducibleCreds ==
    UNION {{CredsFileName(Acct(j).name, Acct(j).users[u].name) :
               u \in DOMAIN Acct(j).users} : j \in 1..N}
MissingRemotes(i) ==
    {j \in DOMAIN ServerRemotes(i) :
        ServerRemotes(i)[j].credentials \notin ProducibleCreds}

\* C8: when a remote names a credential file no user of the deployment
\* produces, the run does not get past distribution: no configuration is
\* written for that server, the run does not succeed, and unless an I/O
\* error comes first distribution fails with MissingCredential naming such
\* a remote's file.
C8_MissingCredentialFails ==
    \A i \in DOMAIN config.servers :
        MissingRemotes(i) # {} =>
            /\ pc \notin {"write_server_config", "done"}
            /\ <<config.servers[i].output_dir, "nats.conf">> \notin DOMAIN files
            /\ (pc = "failed" /\ error.at = "distribute"
                /\ error.kind # "ArtifactIO")
                  => /\ error.kind = "MissingCredential"
                     /\ \E s \in DOMAIN config.servers :
                        \E j \in MissingRemotes(s) :
                           error.what = ServerRemotes(s)[j].credentials

\* C8 witness: the run failed with MissingCredential after the accounts were
\* issued.
C8_Witness ==
    /\ pc = "failed"
    /\ error.kind = "MissingCredential"
    /\ \E i \in DOMAIN config.servers : MissingRemotes(i) # {}
    /\ Len(issued) = N

PreloadOf(i) ==
    LET text == files[<<config.servers[i].output_dir, "nats.conf">>].text
    IN {text[s].entries : s \in {t \in DOMAIN text :
                                    text[t].sec = "resolver_preload"}}
C10_PreloadMatchesAccounts ==
    pc = "done" =>
        \A i \in DOMAIN config.servers :
            /\ Cardinality(PreloadOf(i)) = 1
            /\ \A entries \in PreloadOf(i) :
                  /\ Len(entries) = N
                  /\ \A j \in 1..N :
                        /\ extract_account_id(issued[j]).ok
                        /\ entries[j].key = extract_account_id(issued[j]).value
                        /\ entries[j].value = issued[j]

\* C10 witness: a successful run of two servers, each declaring an account.
C10_Witness ==
    /\ pc = "done"
    /\ Len(config.servers) = 2
    /\ {Accts[j].server : j \in 1..N} = {1, 2}
    /\ \A i \in DOMAIN config.servers : PreloadOf(i) # {}

\* The value of the system_account line of server i's written configuration.
SystemAccountOf(i) ==
    LET text == files[<<config.servers[i].output_dir, "nats.conf">>].text
    IN {text[s].value : s \in {t \in DOMAIN text :
                                  text[t].sec = "system_account"}}

NoSystemFlagged == \A j \in 1..N : ~Acct(j).is_system_account

\* C11: when no account is flagged as system account the run does not fail
\* for that reason, and a completed run's configurations name the subject id
\* of the default system identity created with the operator.
C11_SystemAccountFallback ==
    NoSystemFlagged =>
        /\ ~(pc = "failed" /\ error.at = "system_account")
        /\ pc = "done" =>
              \A i \in DOMAIN config.servers :
                 SystemAccountOf(i) = {default_sys_id}

\* C12: with reuse_existing set, creating the operator never invokes the
\* issuer's `init`: it either returns the stored operator artifact or fails
\* with MissingOperator (it does not end any other way); without
\* reuse_existing the operator JWT comes from a successful `init`.
C12_ReuseExistingLoadsOperator ==
    /\ config.operator.reuse_existing =>
          /\ \A n \in DOMAIN calls : calls[n].op # "init"
          /\ pc # "panicked"
          /\ (pc = "failed" /\ error.at = "create_operator")
                => error.kind = "MissingOperator"
    /\ (~config.operator.reuse_existing /\ operator_jwt # None) =>
          \E n \in DOMAIN calls : calls[n].op = "init" /\ calls[n].ok

\* The stage of spec.md 5 an issuer invocation belongs to: CreateOperator,
\* account and user creation, WireImports.
StageOf(c) ==
    IF c.op = "init" THEN 1
    ELSE IF c.op = "add_import" THEN 3
    ELSE 2

ConfigWritten ==
    \E i \in DOMAIN config.servers :
        <<config.servers[i].output_dir, "nats.conf">> \in DOMAIN files

\* Every account exists, every user has its credentials and every import
\* has been wired.
AllIdentitiesDone ==
    /\ \A j \in 1..N : Created(j)
    /\ \A j \in 1..N : \A u \in DOMAIN Acct(j).users :
          \E n \in DOMAIN calls :
             /\ calls[n].op = "generate_creds" /\ calls[n].ok
             /\ calls[n].account = Acct(j).unique_name
             /\ calls[n].arg = Acct(j).users[u].name
    /\ \A j \in 1..N : \A m \in DOMAIN Acct(j).imports :
          \E n \in DOMAIN calls :
             /\ calls[n].op = "add_import" /\ calls[n].ok
             /\ calls[n].account = Acct(j).unique_name
             /\ calls[n].arg = Acct(j).imports[m].account

\* C13: the stages run in the order CreateOperator, account and user
\* creation, WireImports, then distribution and configuration: an issuer
\* invocation of an earlier stage never follows one of a later stage, and no
\* server configuration is written before all accounts and users exist and
\* all imports are wired.
C13_StagesInOrder ==
    /\ \A m \in DOMAIN calls : \A n \in DOMAIN calls :
          m < n => StageOf(calls[m]) <= StageOf(calls[n])
    /\ ConfigWritten => AllIdentitiesDone

\* What identifies an issuer invocation: the operation and its arguments.
CallKey(c) == <<c.op, c.account, c.arg>>

\* The invocations one account of the descriptor asks for, each once: the
\* account, its limits, its exports, its imports, then per user the user and
\* its credentials.
RECURSIVE UserPlan(_, _)
UserPlan(a, u) ==
    IF u > Len(a.users) THEN <<>>
    ELSE <<<<"add_user", a.unique_name, a.users[u].name>>,
           <<"generate_creds", a.unique_name, a.users[u].name>>>>
         \o UserPlan(a, u + 1)
AccountPlan(a) ==
    (IF a.is_system_account /\ a.name = "SYS" THEN <<>>
     ELSE <<<<"add_account", a.unique_name, "">>>>
          \o (IF a.max_connections # None \/ a.max_payload # None
              THEN <<<<"edit_account", a.unique_name, "">>>> ELSE <<>>)
          \o [e \in DOMAIN a.exports |->
                <<"add_export", a.unique_name, a.exports[e].subject>>]
          \o [m \in DOMAIN a.imports |->
                <<"add_import", a.unique_name, a.imports[m].account>>])
    \o UserPlan(a, 1)
RECURSIVE PlanFrom(_)
PlanFrom(j) ==
    IF j > N THEN <<>> ELSE AccountPlan(Acct(j)) \o PlanFrom(j + 1)
Plan == <<<<"init", "", config.operator.name>>>> \o PlanFrom(1)

\* C14: no issuer invocation is repeated: the invocations made so far are,
\* in order, the first ones of the list that names each operation of each
\* entity of the descriptor once, and an invocation that failed is the last
\* one made.
C14_NoInvocationRepeated ==
    /\ Len(calls) <= Len(Plan)
    /\ \A n \in DOMAIN calls : CallKey(calls[n]) = Plan[n]
    /\ \A n \in DOMAIN calls : ~calls[n].ok => n = Len(calls)

\* C14 witness: a successful run that made every invocation of a descriptor
\* with an edited, exporting account and a user.
C14_Witness ==
    /\ pc = "done"
    /\ Len(calls) = Len(Plan)
    /\ Len(calls) >= 5
    /\ \E n \in DOMAIN calls : calls[n].op = "edit_account"

\* C15: two renderings from equal inputs produce identical text.
C15_RenderingDeterministic ==
    pc = "rendered" => files[RenderPath(1)] = files[RenderPath(2)]

\* The accounts of the descriptor as given, in listed order.
RawAccts == FlattenFrom(raw.servers, 1)
RawAcct(j) == RawAccts[j].account

\* `ident` is an identifier the j-th listed account can be created under:
\* its configured unique_name, or its name with a generated discriminator.
IdentOfRaw(j, ident) ==
    IF RawAcct(j).unique_name # "" THEN ident = RawAcct(j).unique_name
    ELSE \E seed \in Seeds, i \in 1..MaxServers, m \in 1..MaxAccounts :
            ident = RawAcct(j).name \o "-" \o Uuid(seed, i, m)

\* The listed positions of the accounts that are created through the issuer
\* (all but the default SYS account), in listed order.
RECURSIVE CreatedPositions(_)
CreatedPositions(j) ==
    IF j > Len(RawAccts) THEN <<>>
    ELSE (IF RawAcct(j).is_system_account /\ RawAcct(j).name = "SYS"
          THEN <<>> ELSE <<j>>) \o CreatedPositions(j + 1)

IsAddAccount(c) == c.op = "add_account"
AddAccountCalls == SelectSeq(calls, IsAddAccount)

\* C16: the order in which accounts are created and preload entries emitted
\* is determined by the descriptor as given, whatever discriminators were
\* generated: the n-th account created is the n-th listed account that needs
\* creating, and the j-th preload entry is that of the j-th listed account.
C16_CreationOrderDeterministic ==
    /\ Len(AddAccountCalls) <= Len(CreatedPositions(1))
    /\ \A n \in DOMAIN AddAccountCalls :
          IdentOfRaw(CreatedPositions(1)[n], AddAccountCalls[n].account)
    /\ Len(resolver_preload) <= Len(RawAccts)
    /\ \A j \in DOMAIN resolver_preload :
          \/ /\ RawAcct(j).is_system_account /\ RawAcct(j).name = "SYS"
             /\ resolver_preload[j].key = default_sys_id
          \/ \E ident \in {AddAccountCalls[n].account :
                             n \in DOMAIN AddAccountCalls} :
                /\ IdentOfRaw(j, ident)
                /\ resolver_preload[j].key = SubjectId("A", ident)

\* C16 witness: a successful run over two accounts with no import relation,
\* differently named, both with generated unique_names.
C16_Witness ==
    /\ pc = "done"
    /\ Len(RawAccts) = 2
    /\ RawAcct(1).unique_name = "" /\ RawAcct(2).unique_name = ""
    /\ RawAcct(1).name # RawAcct(2).name
    /\ Len(AddAccountCalls) = 2
    /\ Len(resolver_preload) = 2

Decodable(jwt) == jwt.payload.enc = "b64json"
HasSub(jwt) == "sub" \in DOMAIN jwt.payload.claims
HasStringSub(jwt) == HasSub(jwt) /\ jwt.payload.claims.sub.type = "string"

\* C17 as stated: MalformedToken unless there are exactly three segments;
\* otherwise ClaimDecodeError when the second segment does not decode;
\* otherwise MissingSubjectClaim when the claim set has no "sub" field;
\* otherwise the "sub" value is returned.
C17_Original ==
    pc = "extracted" =>
        result[1] =
            IF raw.segments # 3 THEN Err("MalformedToken")
            ELSE IF ~Decodable(raw) THEN Err("ClaimDecodeError")
            ELSE IF ~HasSub(raw) THEN Err("MissingSubjectClaim")
            ELSE Ok(raw.payload.claims.sub.v)

\* C17 (amended): every token gets exactly one outcome, the segment count
\* being checked first: MalformedToken unless there are exactly three
\* segments; otherwise ClaimDecodeError when the second segment does not
\* decode; otherwise MissingSubjectClaim when the claim set has no "sub"
\* field that is a string; otherwise the "sub" string is returned.
C17_ExtractClassifies ==
    pc = "extracted" =>
        /\ raw.segments # 3 => result[1] = Err("MalformedToken")
        /\ (raw.segments = 3 /\ ~Decodable(raw))
              => result[1] = Err("ClaimDecodeError")
        /\ (raw.segments = 3 /\ Decodable(raw) /\ ~HasStringSub(raw))
              => result[1] = Err("MissingSubjectClaim")
        /\ (raw.segments = 3 /\ Decodable(raw) /\ HasStringSub(raw))
              => result[1] = Ok(raw.payload.claims.sub.v)

\* C17 witness: a token with the wrong number of segments whose payload does
\* not decode either has been classified.
C17_Witness ==
    /\ pc = "extracted"
    /\ raw.segments = 4
    /\ raw.payload.enc = "notb64"
    /\ result = Some(Err("MalformedToken"))

\* The directory of the server that declares the j-th account.
DirOfAcct(j) == config.servers[Accts[j].server].output_dir

\* The credential paths the users of accounts j.. give rise to, in order.
RECURSIVE ExpectedCreds(_)
ExpectedCreds(j) ==
    IF j > N THEN <<>>
    ELSE [u \in DOMAIN Acct(j).users |->
             <<DirOfAcct(j),
               Acct(j).name \o "-" \o Acct(j).users[u].name \o ".creds">>]
         \o ExpectedCreds(j + 1)

\* C18: a successful run returns a manifest with the operator artifact's
\* path, one account artifact path per account, one credential path per
\* user and one configuration path per server in server order, and every
\* path of the manifest names a file that exists.
C18_ManifestComplete ==
    pc = "done" =>
        /\ result # None
        /\ LET m == result[1]
           IN /\ m.operator_jwt_path = <<config.servers[1].output_dir,
                                         "operator.jwt">>
              /\ m.operator_jwt_path \in DOMAIN files
              /\ m.account_jwt_paths =
                    [j \in 1..N |-> <<DirOfAcct(j), Acct(j).name \o ".jwt">>]
              /\ m.user_creds_paths = ExpectedCreds(1)
              /\ m.server_config_paths =
                    Some([i \in DOMAIN config.servers |->
                             <<config.servers[i].output_dir, "nats.conf">>])
              /\ m.server_config_path = m.server_config_paths[1][1]
              /\ \A j \in DOMAIN m.account_jwt_paths :
                    m.account_jwt_paths[j] \in DOMAIN files
              /\ \A j \in DOMAIN m.user_creds_paths :
                    m.user_creds_paths[j] \in DOMAIN files
              /\ \A j \in DOMAIN m.server_config_paths[1] :
                    m.server_config_paths[1][j] \in DOMAIN files

\* C18 witness: a successful run of two servers with two accounts and a user.
C18_Witness ==
    /\ pc = "done"
    /\ Len(config.servers) = 2
    /\ N = 2
    /\ Len(result[1].user_creds_paths) >= 1

\* The subjects the argument list asks the issuer to allow for publishing
\* and for subscribing (`--allow-pubsub` asks for both).
RequestedUnder(flags) ==
    UNION {Range(calls[a].value) :
              a \in {b \in DOMAIN calls : calls[b].flag \in flags}}
AllowedPublish == RequestedUnder({"--allow-pub", "--allow-pubsub"})
AllowedSubscribe == RequestedUnder({"--allow-sub", "--allow-pubsub"})

\* C19: the permissions requested for a user keep publish and subscribe
\* apart: a subject listed only in the allowed-subscribe set is requested
\* as a subscribe permission and never as a publish permission, and a
\* subject listed only in the allowed-publish set is requested as a publish
\* permission and never as a subscribe permission.
C19_PublishSubscribeApart ==
    pc = "generate_creds" =>
        \A s \in Subjects :
            /\ (s \in Range(raw.allowed_subjects)
                /\ s \notin Range(raw.allowed_publishes))
               => (s \in AllowedSubscribe /\ s \notin AllowedPublish)
            /\ (s \in Range(raw.allowed_publishes)
                /\ s \notin Range(raw.allowed_subjects))
               => (s \in AllowedPublish /\ s \notin AllowedSubscribe)

\* The identity artifacts the run has written so far.
WrittenArtifacts ==
    Range(account_jwt_paths) \cup Range(user_creds_paths)
    \cup (IF operator_jwt # None /\ OperatorJwtPath \in DOMAIN files
          THEN {OperatorJwtPath} ELSE {})

NoPathTwice(paths) ==
    \A a, b \in DOMAIN paths : paths[a] = paths[b] => a = b

\* A step leaves every artifact written so far in place, with its content.
ArtifactsKept ==
    \A p \in WrittenArtifacts :
        /\ p \in DOMAIN files
        /\ p \in DOMAIN files'
        /\ files'[p] = files[p]

\* C20: within one run every identity artifact file is written exactly
\* once: no two accounts and no two users are written to the same output
\* path, and no artifact file is deleted, overwritten or regenerated after
\* it was first written.
C20_ArtifactsWrittenOnce ==
    /\ [](NoPathTwice(account_jwt_paths) /\ NoPathTwice(user_creds_paths))
    /\ [][ArtifactsKept]_vars

\* The blocks called `sec` of a rendered configuration.
Sections(text, sec) == {j \in DOMAIN text : text[j].sec = sec}

\* The configuration files written so far.
WrittenConfigs == {files[p].text : p \in Range(server_config_paths)}

InitCalls == {j \in DOMAIN calls : calls[j].op = "init"}

\* C21: all servers of a deployment share one operator identity: the
\* operator is created exactly once per run, and the operator token in
\* every server's configuration is the token of that operator.
C21_OneOperator ==
    /\ Cardinality(InitCalls) <= 1
    /\ \A text \in WrittenConfigs :
          /\ \E j \in InitCalls :
                calls[j].ok /\ calls[j].arg = store.operator
          /\ Cardinality(Sections(text, "operator")) = 1
          /\ \A j \in Sections(text, "operator") :
                /\ text[j].value = StoredOperatorJwt(store)
                /\ text[j].value = files[OperatorJwtPath]

\* C21 witness: a run of two servers returned, both configurations written.
C21_Witness ==
    /\ pc = "done"
    /\ Len(config.servers) = 2
    /\ Len(server_config_paths) = 2

\* C22: normalisation appends a random discriminator to the operator name
\* only when reuse is not requested; with reuse_existing set the operator
\* name used for the rest of the run is exactly the configured name.
C22_DiscriminatorUnlessReuse ==
    /\ raw.operator.reuse_existing
          => config.operator.name = raw.operator.name
    /\ ~raw.operator.reuse_existing
          => /\ config.operator.name # raw.operator.name
             /\ \A j \in DOMAIN calls :
                   calls[j].op = "init" => calls[j].arg = config.operator.name

\* The place of each block in the fixed order of a configuration.
SectionOrder ==
    <<"port", "jetstream", "tls", "mappings", "leafnodes_port",
      "leafnodes_remotes", "operator", "system_account", "resolver",
      "resolver_preload">>
Rank(sec) == CHOOSE n \in DOMAIN SectionOrder : SectionOrder[n] = sec

Has(text, sec) == Sections(text, sec) # {}

\* The configuration `text` of `server` has its blocks in the fixed order,
\* each optional block exactly when its condition holds.
WellOrdered(text, server) ==
    /\ \A i, j \in DOMAIN text :
          i < j => Rank(text[i].sec) < Rank(text[j].sec)
    /\ \A sec \in {"port", "operator", "system_account", "resolver"} :
          Has(text, sec)
    /\ Has(text, "jetstream") <=> server.jetstream.enabled
    /\ Has(text, "tls") <=> server.tls # None
    /\ Has(text, "mappings") <=> server.mappings.entries # {}
    /\ Has(text, "leafnodes_port") <=> server.leafnodes.port # None
    /\ Has(text, "leafnodes_remotes") <=> server.leafnodes.remotes # <<>>

\* C23: the rendered configuration lists its sections in one fixed order
\* (port and server name, Jetstream, TLS, mappings, leafnode listen port,
\* leafnode remotes, operator token, system-account id, resolver), and each
\* optional section is present if and only if its condition holds.
C23_SectionsInFixedOrder ==
    \A p \in DOMAIN files : WellOrdered(files[p].text, raw.server)

\* C23 witness: a server with every optional section has been rendered.
C23_Witness ==
    /\ pc = "rendered"
    /\ raw.server.jetstream.enabled
    /\ raw.server.tls # None
    /\ raw.server.mappings.entries # {}
    /\ raw.server.leafnodes.port # None
    /\ raw.server.leafnodes.remotes # <<>>
    /\ Len(files[RenderPath(1)].text) = 10

\* The remotes block of `text` resolves each remote of `server`: url as
\* given, account as the subject id of the named account's JWT, credentials
\* as the file in the server's own output directory.
RemotesResolved(text, server, account_jwts) ==
    \A s \in Sections(text, "leafnodes_remotes") :
        LET remotes == server.leafnodes.remotes
            entries == text[s].entries
        IN /\ Len(entries) = Len(remotes)
           /\ \A j \in DOMAIN remotes :
                 LET id == extract_account_id(account_jwts[remotes[j].account])
                 IN /\ id.ok
                    /\ entries[j].account = id.value
                    /\ entries[j].url = remotes[j].url
                    /\ entries[j].credentials =
                          <<server.output_dir, remotes[j].credentials>>

\* C24: for every leafnode remote of a rendered configuration the account
\* field is the subject id extracted from the JWT of the account the remote
\* names, the credentials field is the server's own output directory joined
\* with the remote's credentials file name, and the url is the remote's url.
C24_RemotesResolved ==
    \A p \in DOMAIN files :
        RemotesResolved(files[p].text, raw.server, raw.account_jwts)

\* C24 witness: a remote was rendered whose account's identifier is not
\* its name.
C24_Witness ==
    /\ pc = "rendered"
    /\ raw.server.leafnodes.remotes # <<>>
    /\ Has(files[RenderPath(1)].text, "leafnodes_remotes")
    /\ \E j \in DOMAIN raw.server.leafnodes.remotes :
          LET remote == raw.server.leafnodes.remotes[j]
          IN raw.account_jwts[remote.account].payload.claims.name
                # remote.account

\* The accounts of server i that are flagged as system account.
FlaggedSystem(i) ==
    {j \in DOMAIN config.servers[i].accounts :
        config.servers[i].accounts[j].is_system_account}

\* C25: for every server of a successful run exactly one system account is
\* resolved: its configuration holds a single system_account id, and no
\* server with two accounts flagged as system account silently resolves to
\* one of them.
C25_OneSystemAccountPerServer ==
    pc = "done" =>
        \A i \in DOMAIN config.servers :
            /\ Cardinality(Sections(files[server_config_paths[i]].text,
                                    "system_account")) = 1
            /\ Cardinality(FlaggedSystem(i)) <= 1

\* The positions (server, index) of the accounts of the deployment.
AccountPositions ==
    UNION {{<<i, j>> : j \in DOMAIN config.servers[i].accounts} :
              i \in DOMAIN config.servers}

Given(pos) == raw.servers[pos[1]].accounts[pos[2]]
Normalized(pos) == config.servers[pos[1]].accounts[pos[2]]

\* C26: after normalisation every account has a non-empty unique_name, an
\* explicitly configured unique_name is unchanged, an absent one is
\* generated from the account name plus a discriminator, and the
\* unique_names of all accounts are pairwise distinct before any account is
\* created.
C26_UniqueNamesAfterNormalisation ==
    /\ \A pos \in AccountPositions :
          /\ Normalized(pos).unique_name # ""
          /\ Given(pos).unique_name # ""
                => Normalized(pos).unique_name = Given(pos).unique_name
          /\ Given(pos).unique_name = ""
                => \E seed \in Seeds :
                      Normalized(pos).unique_name =
                         Given(pos).name \o "-"
                            \o Uuid(seed, pos[1], pos[2])
    /\ (\E c \in DOMAIN calls : calls[c].op = "add_account")
          => \A p, q \in AccountPositions :
                Normalized(p).unique_name = Normalized(q).unique_name
                   => p = q

\* C27: every failure of a run is returned to the caller as an error value:
\* no descriptor makes the run panic, in particular not a leafnode remote
\* that names an account with no known JWT, an account JWT whose subject id
\* cannot be extracted during rendering, or an operator with reuse_existing.
C27_NoPanic ==
    /\ pc # "panicked"
    /\ pc = "failed" => error # NoError

\* The issuer operations that refer to an existing account.
AccountOps == {"add_export", "add_import", "add_user", "generate_creds"}

\* The invocation a step makes, if any, names accounts the store holds.
CallNamesStoredAccount ==
    Len(calls') > Len(calls) =>
        LET c == calls'[Len(calls')]
        IN c.op \in AccountOps =>
              /\ HasAccount(store, c.account)
              /\ c.op = "add_import" => HasAccount(store, c.arg)

\* C28: every issuer invocation that refers to an account (add export, add
\* import with its source and its target account, add user, generate
\* credentials) names an identifier under which an account exists in the
\* trust store at the moment of the call.
C28_CallsNameStoredAccounts == [][CallNamesStoredAccount]_vars

\* The token the trust store holds for account `ident` now.
CurrentJwt(ident) ==
    [segments |-> 3,
     payload |-> [enc |-> "b64json",
                  claims |-> [sub |-> JsonString("A:" \o ident),
                              name |-> ident,
                              rev |-> store.accounts[ident].rev]]]

\* `content` is the JWT of an account, and the account it is the JWT of.
IsAccountJwt(content) ==
    /\ "payload" \in DOMAIN content
    /\ "sub" \in DOMAIN content.payload.claims
    /\ "name" \in DOMAIN content.payload.claims
    /\ content.payload.claims.sub = JsonString("A:" \o content.payload.claims.name)
JwtOwner(content) == content.payload.claims.name

UpToDate(content) ==
    /\ JwtOwner(content) \in DOMAIN store.accounts
    /\ content = CurrentJwt(JwtOwner(content))

\* The preload entries embedded in the configuration files.
EmbeddedPreload ==
    UNION {UNION {Range(text[j].entries) :
                     j \in Sections(text, "resolver_preload")} :
              text \in WrittenConfigs}

\* The account JWTs the run has read back so far and what it will still be
\* asked to change: a successful account-changing call names an account
\* whose JWT was not read back yet.
ChangesOnlyUnread ==
    Len(calls') > Len(calls) =>
        LET c == calls'[Len(calls')]
        IN (c.ok /\ c.op \in {"edit_account", "add_export", "add_import"})
              => \A j \in DOMAIN issued :
                    IsAccountJwt(issued[j]) => JwtOwner(issued[j]) # c.account

AllJwtsCurrent ==
    pc = "done" =>
        /\ \A j \in DOMAIN issued :
              IsAccountJwt(issued[j]) /\ UpToDate(issued[j])
        /\ \A p \in DOMAIN files :
              IsAccountJwt(files[p]) => UpToDate(files[p])
        /\ \A j \in DOMAIN account_jwt_paths :
              IsAccountJwt(files[account_jwt_paths[j]])
        /\ \A e \in Range(resolver_preload) \cup EmbeddedPreload :
              IsAccountJwt(e.value) /\ UpToDate(e.value)

\* C29: at successful completion every account JWT written to an output
\* directory or embedded in a preload map is identical to that account's
\* JWT in the trust store, and no issuer operation that changes an account
\* (edit limits, add export, add import) is performed on it after its JWT
\* was read back.
C29_WrittenJwtsAreCurrent ==
    /\ []AllJwtsCurrent
    /\ [][ChangesOnlyUnread]_vars

\* C29 witness: a run succeeded in which an account was changed after it
\* was added and before its JWT was read back.
C29_Witness ==
    /\ pc = "done"
    /\ \E j \in DOMAIN issued :
          /\ IsAccountJwt(issued[j])
          /\ store.accounts[JwtOwner(issued[j])].rev > 0
          /\ Join(DirOfAcct(j), Acct(j).name \o ".jwt") \in DOMAIN files

\* The keys of the preload map of a configuration.
PreloadKeys(text) ==
    UNION {{text[j].entries[e].key : e \in DOMAIN text[j].entries} :
              j \in Sections(text, "resolver_preload")}

\* C30: in every server configuration written with an in-place preload map
\* the system_account id is one of the keys of that map, both when the
\* system account is the issuer's default SYS account and when it is a
\* created account flagged as system account.
C30_SystemAccountInPreload ==
    \A text \in WrittenConfigs :
        /\ Has(text, "system_account")
        /\ Has(text, "resolver_preload")
        /\ \A s \in Sections(text, "system_account") :
              text[s].value \in PreloadKeys(text)

\* C30 witness: a run returned whose system account is the issuer's default
\* SYS account, next to a created account.
C30_Witness ==
    /\ pc = "done"
    /\ system_account_id = Some(default_sys_id)
    /\ N = 2
    /\ Cardinality(PreloadKeys(files[server_config_paths[1]].text)) = 2
====
